---- MODULE Spec2Model ----
(***************************************************************************)
(* v8-lint: the rule registry (rules/registry.ts), the rule base class     *)
(* (rules/base-rule.ts) and the analyzer (core/analyzer.ts).               *)
(*                                                                         *)
(* Strings the code inspects character by character (file names, exclude   *)
(* patterns, source text) are sequences of one-character strings; strings  *)
(* the code only compares (rule ids, categories, severities) are strings.  *)
(* An operation that can throw returns a record with a "throw" field.      *)
(***************************************************************************)
EXTENDS Integers, Sequences, FiniteSets, TLC

VARIABLES
    rules,          \* RuleRegistry.rules: the keys of the Map, in insertion order
    metadata,       \* RuleRegistry.metadata: rule id -> RuleMetadata
    configuration,  \* RuleRegistry.configuration: RuleSystemConfiguration
    ruleConfig,     \* BaseRule.configuration of each registered rule
    config,         \* V8LintAnalyzer.config: AnalyzerConfig
    call,           \* the last analyze call: its arguments and its outcome
    obs             \* the last call of another operation: its arguments,
                    \* and its return value once it has returned

vars == <<rules, metadata, configuration, ruleConfig, config, call, obs>>

regVars == <<rules, metadata, configuration, ruleConfig>>

anVars == <<config, call>>

-----------------------------------------------------------------------------
(* JavaScript values *)

\* the object literal {}
EmptyObject == [k \in {} |-> TRUE]

\* object spread: { ...a, ...b }
Spread(a, b) ==
    [f \in (DOMAIN a) \cup (DOMAIN b) |-> IF f \in DOMAIN b THEN b[f] ELSE a[f]]

Throw(message) == [throw |-> message]

Threw(r) == "throw" \in DOMAIN r

-----------------------------------------------------------------------------
(* rules/types.ts *)

RuleSeverity == {"error", "warning", "info", "off"}

RuleCategory ==
    {"object-optimization", "array-optimization", "function-optimization",
     "type-optimization", "memory-optimization", "regexp-optimization"}

-----------------------------------------------------------------------------
(* rules/metadata.json: the fields of each entry that the code reads *)

Meta(id, description, category, defaultSeverity, documentation, fixable, tags) ==
    [id |-> id, description |-> description, category |-> category,
     defaultSeverity |-> defaultSeverity, documentation |-> documentation,
     fixable |-> fixable, tags |-> tags]

ruleMetadataJson ==
    [r \in {"no-dynamic-object-properties",
            "no-array-constructor-holes",
            "no-property-deletion",
            "no-arguments-object",
            "no-array-type-mixing",
            "prefer-packed-arrays",
            "no-regexp-modification",
            "no-smi-double-field-transition"} |->
        CASE r = "no-dynamic-object-properties" ->
                 Meta(r,
                      "Prevents dynamic property addition that creates new object shapes",
                      "object-optimization", "warning",
                      "https://github.com/fabulousDesigns/v8-lint/docs/rules/no-dynamic-object-properties.md",
                      TRUE,
                      <<"object", "shape", "hiddenclass", "performance">>)
          [] r = "no-array-constructor-holes" ->
                 Meta(r,
                      "Prevents creating arrays with holes using Array constructor",
                      "array-optimization", "warning",
                      "https://github.com/fabulousDesigns/v8-lint/docs/rules/no-array-constructor-holes.md",
                      TRUE,
                      <<"array", "holes", "elements", "packed">>)
          [] r = "no-property-deletion" ->
                 Meta(r,
                      "Prevents property deletion that forces objects into dictionary mode",
                      "object-optimization", "warning",
                      "https://github.com/fabulousDesigns/v8-lint/docs/rules/no-property-deletion.md",
                      TRUE,
                      <<"object", "delete", "dictionary", "properties">>)
          [] r = "no-arguments-object" ->
                 Meta(r,
                      "Prevents using the arguments object in favor of rest parameters",
                      "function-optimization", "warning",
                      "https://github.com/fabulousDesigns/v8-lint/docs/rules/no-arguments-object.md",
                      TRUE,
                      <<"function", "arguments", "rest", "parameters">>)
          [] r = "no-array-type-mixing" ->
                 Meta(r,
                      "Prevents mixing different types in arrays that cause elements kind transitions",
                      "array-optimization", "warning",
                      "https://github.com/fabulousDesigns/v8-lint/docs/rules/no-array-type-mixing.md",
                      FALSE,
                      <<"array", "types", "elements", "smi", "transitions">>)
          [] r = "prefer-packed-arrays" ->
                 Meta(r,
                      "Prevents creating sparse arrays that use dictionary elements storage",
                      "array-optimization", "warning",
                      "https://github.com/fabulousDesigns/v8-lint/docs/rules/prefer-packed-arrays.md",
                      FALSE,
                      <<"array", "sparse", "packed", "dictionary">>)
          [] r = "no-regexp-modification" ->
                 Meta(r,
                      "Prevents modifying RegExp instances or prototype that disables fast paths",
                      "regexp-optimization", "info",
                      "https://github.com/fabulousDesigns/v8-lint/docs/rules/no-regexp-modification.md",
                      FALSE,
                      <<"regexp", "prototype", "modification">>)
          [] r = "no-smi-double-field-transition" ->
                 Meta(r,
                      "Prevents field representation transitions that cause performance cliffs",
                      "type-optimization", "error",
                      "https://github.com/fabulousDesigns/v8-lint/docs/rules/no-smi-double-field-transition.md",
                      TRUE,
                      <<"smi", "double", "representation", "react", "fields">>)]

-----------------------------------------------------------------------------
(* The TypeScript compiler API, over a source text that is a sequence of     *)
(* characters; offsets count from 0, and a node is the pair of offsets       *)
(* getStart() and getEnd() return                                            *)

\* the value of a property that was read but is not there
Undefined == [undefined |-> TRUE]

\* SourceFile.getLineAndCharacterOfPosition: the line is the number of line
\* breaks before the offset, the character the distance from the line's start
getLineAndCharacterOfPosition(text, pos) ==
    LET breaks == {i \in 1..pos : text[i] = "\n"}
        lineStart == IF breaks = {} THEN 0
                     ELSE CHOOSE i \in breaks : \A j \in breaks : j <= i
    IN  [line |-> Cardinality(breaks), character |-> pos - lineStart]

\* Node.getText(sourceFile)
getText(node, text) == SubSeq(text, node.start + 1, node.end)

-----------------------------------------------------------------------------
(* rules/base-rule.ts *)

\* BaseRule.constructor: the configuration a rule starts with
BaseRuleDefault(md) ==
    [enabled |-> TRUE, severity |-> md.defaultSeverity, options |-> EmptyObject]

\* configure with the spread reversed: the held fields win
configureKeepsHeld(held, c) == Spread(c, held)

\* BaseRule.configure: this.configuration = { ...this.configuration, ...config }
configure(held, c) == Spread(held, c)

\* the fields of the issue that createIssue fills in before it spreads the
\* caller's options over them
IssueFields(md, held, node, context, message, options) ==
    LET start == getLineAndCharacterOfPosition(context.sourceFile, node.start)
        end == getLineAndCharacterOfPosition(context.sourceFile, node.end)
    IN  [ruleId |-> md.id,
         category |-> md.category,
         severity |-> held.severity,
         message |-> message,
         description |->
            IF "description" \in DOMAIN options /\ options.description # ""
            THEN options.description ELSE md.description,
         line |-> start.line + 1,
         column |-> start.character + 1,
         endLine |-> end.line + 1,
         endColumn |-> end.character + 1,
         source |-> getText(node, context.sourceFile),
         fileName |-> context.fileName,
         documentation |-> md.documentation,
         tags |-> md.tags,
         suggestedFix |->
            IF "suggestedFix" \in DOMAIN options
            THEN options.suggestedFix ELSE Undefined,
         quickFixAvailable |-> md.fixable,
         impactLevel |->
            IF "impactLevel" \in DOMAIN options
            THEN options.impactLevel ELSE "medium"]

\* createIssue with the caller's options spread first: the rule's values win
createIssueOwnFieldsWin(md, held, node, context, message, options) ==
    Spread(options, IssueFields(md, held, node, context, message, options))

\* BaseRule.createIssue
createIssue(md, held, node, context, message, options) ==
    Spread(IssueFields(md, held, node, context, message, options), options)

-----------------------------------------------------------------------------
(* rules/registry.ts *)

\* the rule classes loadRulesAndMetadata instantiates, in source order
RuleClasses ==
    <<"no-dynamic-object-properties", "no-array-constructor-holes",
      "no-property-deletion", "no-arguments-object", "no-array-type-mixing",
      "prefer-packed-arrays", "no-regexp-modification",
      "no-smi-double-field-transition">>

SeqToSet(s) == {s[i] : i \in 1..Len(s)}

\* RuleRegistry.getMetadata
getMetadata(store, ruleId) ==
    IF ruleId \in DOMAIN store
    THEN store[ruleId]
    ELSE Throw("Metadata not found for rule")

\* registerRule without its test for a rule already registered: Map.set on a
\* key the Map holds keeps the key's place
registerRuleOverwrites(keys, ruleId) ==
    IF Threw(keys) THEN keys
    ELSE IF ruleId \in SeqToSet(keys.value)
         THEN keys
         ELSE [value |-> Append(keys.value, ruleId)]

\* RuleRegistry.registerRule: the Map's keys after registering rule ruleId
registerRule(keys, ruleId) ==
    IF Threw(keys) THEN keys
    ELSE IF ruleId \in SeqToSet(keys.value)
         THEN Throw("Rule is already registered")
         ELSE [value |-> Append(keys.value, ruleId)]

RECURSIVE registerAll(_, _, _, _)
registerAll(store, classes, i, keys) ==
    IF i > Len(classes) \/ Threw(keys) THEN keys
    ELSE LET md == getMetadata(store, classes[i])
         IN  IF Threw(md) THEN md
             ELSE registerAll(store, classes, i + 1, registerRule(keys, md.id))

\* RuleRegistry.loadRulesAndMetadata: the registered ids, or a thrown error
loadRulesAndMetadata(store, classes) ==
    LET r == registerAll(store, classes, 1, [value |-> <<>>])
    IN  IF Threw(r) THEN Throw("Failed to initialize rule registry") ELSE r

\* RuleRegistry.constructor: the default configuration
DefaultMaxIssuesPerFile == 100

DefaultConfiguration ==
    [enabled |-> TRUE,
     rules |-> EmptyObject,
     excludePatterns |-> <<"**/node_modules/**", "**/dist/**", "**/build/**">>,
     includeCategories |->
        <<"object-optimization", "array-optimization", "function-optimization",
          "type-optimization", "regexp-optimization">>,
     maxIssuesPerFile |-> DefaultMaxIssuesPerFile]

\* getRuleConfiguration with the user's severity ignored
getRuleConfigurationDefaultSeverity(cfg, store, ruleId) ==
    LET hasUser == ruleId \in DOMAIN cfg.rules
        userConfig == cfg.rules[ruleId]
    IN  IF ruleId \notin DOMAIN store
        THEN Throw("No metadata found for rule")
        ELSE [enabled |->
                 IF hasUser /\ "enabled" \in DOMAIN userConfig
                 THEN userConfig.enabled ELSE TRUE,
              severity |-> store[ruleId].defaultSeverity,
              options |->
                 IF hasUser /\ "options" \in DOMAIN userConfig
                 THEN userConfig.options ELSE EmptyObject]

\* getRuleConfiguration that never reads the user's entry
getRuleConfigurationIgnoresUser(cfg, store, ruleId) ==
    IF ruleId \notin DOMAIN store
    THEN Throw("No metadata found for rule")
    ELSE [enabled |-> TRUE, severity |-> store[ruleId].defaultSeverity,
          options |-> EmptyObject]

\* RuleRegistry.getRuleConfiguration
getRuleConfiguration(cfg, store, ruleId) ==
    LET hasUser == ruleId \in DOMAIN cfg.rules
        userConfig == cfg.rules[ruleId]
    IN  IF ruleId \notin DOMAIN store
        THEN Throw("No metadata found for rule")
        ELSE [enabled |->
                 IF hasUser /\ "enabled" \in DOMAIN userConfig
                 THEN userConfig.enabled ELSE TRUE,
              severity |->
                 IF hasUser /\ "severity" \in DOMAIN userConfig
                 THEN userConfig.severity ELSE store[ruleId].defaultSeverity,
              options |->
                 IF hasUser /\ "options" \in DOMAIN userConfig
                 THEN userConfig.options ELSE EmptyObject]

\* RuleRegistry.applyConfigurationToRules: the rules' configurations after the
\* loop, which stops at the first rule whose configuration cannot be resolved
RECURSIVE applyConfigurationToRules(_, _, _, _, _)
applyConfigurationToRules(cfg, store, keys, i, held) ==
    IF i > Len(keys) THEN held
    ELSE LET rc == getRuleConfiguration(cfg, store, keys[i])
         IN  IF Threw(rc) THEN held
             ELSE applyConfigurationToRules(cfg, store, keys, i + 1,
                      [held EXCEPT ![keys[i]] = configure(held[keys[i]], rc)])

Includes(s, x) == \E i \in 1..Len(s) : s[i] = x

\* the loop of getActiveRules without the test for severity "off"
RECURSIVE activeLoopKeepsOff(_, _, _, _, _)
activeLoopKeepsOff(cfg, store, keys, i, activeRules) ==
    IF i > Len(keys) THEN [value |-> activeRules]
    ELSE LET rc == getRuleConfiguration(cfg, store, keys[i])
         IN  IF Threw(rc) THEN rc
             ELSE IF ~rc.enabled
                  THEN activeLoopKeepsOff(cfg, store, keys, i + 1, activeRules)
             ELSE IF ~Includes(cfg.includeCategories, store[keys[i]].category)
                  THEN activeLoopKeepsOff(cfg, store, keys, i + 1, activeRules)
             ELSE activeLoopKeepsOff(cfg, store, keys, i + 1,
                                     Append(activeRules, keys[i]))

\* RuleRegistry.getActiveRules: the loop over the Map, in insertion order
RECURSIVE activeLoop(_, _, _, _, _)
activeLoop(cfg, store, keys, i, activeRules) ==
    IF i > Len(keys) THEN [value |-> activeRules]
    ELSE LET rc == getRuleConfiguration(cfg, store, keys[i])
         IN  IF Threw(rc) THEN rc
             ELSE IF ~rc.enabled \/ rc.severity = "off"
                  THEN activeLoop(cfg, store, keys, i + 1, activeRules)
             ELSE IF ~Includes(cfg.includeCategories, store[keys[i]].category)
                  THEN activeLoop(cfg, store, keys, i + 1, activeRules)
             ELSE activeLoop(cfg, store, keys, i + 1,
                             Append(activeRules, keys[i]))

\* getActiveRules without the test of the global enable flag
getActiveRulesIgnoresGlobalFlag(cfg, store, keys) ==
    activeLoop(cfg, store, keys, 1, <<>>)

\* RuleRegistry.getActiveRules
getActiveRules(cfg, store, keys) ==
    IF ~cfg.enabled THEN [value |-> <<>>]
    ELSE activeLoop(cfg, store, keys, 1, <<>>)

\* validateRuleConfiguration without the return after its first error
validateRuleConfigurationChecksOn(keys, ruleId, c) ==
    (IF ruleId \notin SeqToSet(keys)
     THEN <<[error |-> "Unknown rule", ruleId |-> ruleId]>> ELSE <<>>)
    \o (IF c.severity \notin {"error", "warning", "info", "off"}
        THEN <<[error |-> "Invalid severity", severity |-> c.severity,
                ruleId |-> ruleId]>>
        ELSE <<>>)

\* RuleRegistry.validateRuleConfiguration: the list of errors
validateRuleConfiguration(keys, ruleId, c) ==
    IF ruleId \notin SeqToSet(keys)
    THEN <<[error |-> "Unknown rule", ruleId |-> ruleId]>>
    ELSE IF c.severity \notin {"error", "warning", "info", "off"}
         THEN <<[error |-> "Invalid severity", severity |-> c.severity,
                 ruleId |-> ruleId]>>
         ELSE <<>>

-----------------------------------------------------------------------------
(* The configurations a caller passes to RuleRegistry.updateConfiguration.   *)
(* tsconfig.json sets exactOptionalPropertyTypes, so a field of a Partial<T>  *)
(* argument is either absent or holds a value of its declared type.           *)

\* rule ids a caller configures: registered ones and one that is not
ConfiguredIds ==
    {"no-dynamic-object-properties", "no-regexp-modification", "unknown-rule"}

\* the per-rule entries a caller supplies: a rule switched off by its flag, by
\* its severity, by both, and a rule kept on with its severity and options set
RuleConfigurations ==
    {[enabled |-> FALSE, severity |-> "warning", options |-> EmptyObject],
     [enabled |-> TRUE, severity |-> "off", options |-> EmptyObject],
     [enabled |-> FALSE, severity |-> "off", options |-> EmptyObject],
     [enabled |-> TRUE, severity |-> "error", options |-> [strict |-> TRUE]]}

\* a rules mapping holds at most MaxRuleEntries entries
MaxRuleEntries == 2

RuleMaps ==
    UNION {[D -> RuleConfigurations] :
             D \in {S \in SUBSET ConfiguredIds : Cardinality(S) <= MaxRuleEntries}}

CategoryLists ==
    {<<>>,
     <<"memory-optimization", "regexp-optimization", "array-optimization">>}

IssueCaps == {1}

\* the fields a caller's partial configuration may carry
UpdatedFields == {"enabled", "rules", "includeCategories", "maxIssuesPerFile"}

Pick(D, f, S, dummy) == IF f \in D THEN S ELSE {dummy}

-----------------------------------------------------------------------------
(* String operations of the JavaScript runtime, over sequences of characters *)

Whitespace == {" ", "\n"}

\* t occurs in s at position k (1-based)
OccursAt(s, t, k) ==
    /\ k + Len(t) - 1 <= Len(s)
    /\ \A j \in 1..Len(t) : s[k + j - 1] = t[j]

\* String.prototype.indexOf, 1-based; 0 when t does not occur in s
indexOf(s, t) ==
    IF \E k \in 1..(Len(s) + 1) : OccursAt(s, t, k)
    THEN CHOOSE k \in 1..(Len(s) + 1) :
            /\ OccursAt(s, t, k)
            /\ \A j \in 1..(k - 1) : ~OccursAt(s, t, j)
    ELSE 0

\* String.prototype.includes
includes(s, t) == indexOf(s, t) # 0

\* String.prototype.replace with a string pattern: the first occurrence only
replace(s, t, r) ==
    LET k == indexOf(s, t)
    IN  IF k = 0 THEN s
        ELSE SubSeq(s, 1, k - 1) \o r \o SubSeq(s, k + Len(t), Len(s))

\* a trim that strips blanks only
trimBlanksOnly(s) ==
    LET inked == {i \in 1..Len(s) : s[i] # " "}
    IN  IF inked = {} THEN <<>>
        ELSE SubSeq(s, CHOOSE i \in inked : \A j \in inked : i <= j,
                       CHOOSE i \in inked : \A j \in inked : i >= j)

\* String.prototype.trim
trim(s) ==
    LET inked == {i \in 1..Len(s) : s[i] \notin Whitespace}
    IN  IF inked = {} THEN <<>>
        ELSE SubSeq(s, CHOOSE i \in inked : \A j \in inked : i <= j,
                       CHOOSE i \in inked : \A j \in inked : i >= j)

UpperCase ==
    <<"A", "B", "C", "D", "E", "F", "G", "H", "I", "J", "K", "L", "M",
      "N", "O", "P", "Q", "R", "S", "T", "U", "V", "W", "X", "Y", "Z">>

LowerCase ==
    <<"a", "b", "c", "d", "e", "f", "g", "h", "i", "j", "k", "l", "m",
      "n", "o", "p", "q", "r", "s", "t", "u", "v", "w", "x", "y", "z">>

\* String.prototype.toLowerCase
toLowerCase(s) ==
    [i \in 1..Len(s) |->
        IF \E k \in 1..Len(UpperCase) : UpperCase[k] = s[i]
        THEN LowerCase[CHOOSE k \in 1..Len(UpperCase) : UpperCase[k] = s[i]]
        ELSE s[i]]

\* String.prototype.split with a one-character separator: the pieces between
\* the separators, one more than there are separators
RECURSIVE split(_, _)
split(s, sep) ==
    LET k == indexOf(s, <<sep>>)
    IN  IF k = 0 THEN <<s>>
        ELSE <<SubSeq(s, 1, k - 1)>> \o split(SubSeq(s, k + 1, Len(s)), sep)

\* Array.prototype.pop: the value it returns
pop(a) == IF a = <<>> THEN Undefined ELSE a[Len(a)]

-----------------------------------------------------------------------------
(* core/analyzer.ts *)

\* V8LintAnalyzer.getScriptKind
getScriptKind(fileName) ==
    LET extension == pop(split(toLowerCase(fileName), "."))
    IN  CASE extension = <<"t", "s">> -> "TS"
          [] extension = <<"t", "s", "x">> -> "TSX"
          [] extension = <<"j", "s", "x">> -> "JSX"
          [] extension = <<"j", "s">> -> "JS"
          [] OTHER -> "JS"

\* V8LintAnalyzer.constructor: the default configuration
DefaultConfig ==
    [enabled |-> TRUE,
     rules |-> EmptyObject,
     defaultSeverity |-> "warning",
     excludePatterns |-> <<>>]

\* a try block without its catch clause
NoCatch(body, fallback) == body

\* try { body } catch { return fallback }
TryCatch(body, fallback) == IF Threw(body) THEN fallback ELSE body

\* ts.createSourceFile: a tree, a tree carrying parse diagnostics, or an
\* internal failure of the parser
ParseOutcomes == {"tree", "diagnostics", "throws"}

createSourceFile(outcome) ==
    IF outcome = "throws" THEN Throw("createSourceFile failed")
    ELSE [tree |-> TRUE, parseDiagnostics |-> outcome = "diagnostics"]

Null == [tree |-> FALSE]

\* parseSourceCode that gives up on a tree carrying parse diagnostics
parseSourceCodeRejectsDiagnostics(outcome) ==
    LET sourceFile == TryCatch(createSourceFile(outcome), Null)
    IN  IF sourceFile.tree /\ sourceFile.parseDiagnostics THEN Null
        ELSE sourceFile

\* V8LintAnalyzer.parseSourceCode
parseSourceCode(outcome) == TryCatch(createSourceFile(outcome), Null)

\* V8LintAnalyzer.shouldSkipFile
shouldSkipFile(cfg, fileName) ==
    \E i \in 1..Len(cfg.excludePatterns) :
        includes(fileName,
                 replace(replace(cfg.excludePatterns[i],
                                 <<"*", "*", "/">>, <<>>),
                         <<"/", "*", "*">>, <<>>))

\* what a return statement of analyze leaves behind: the list the promise
\* resolves to, how often ts.createSourceFile was invoked, and the rules whose
\* analyze was invoked
Return(issues, parseCalls) ==
    [settled |-> "resolved", result |-> issues, parseCalls |-> parseCalls,
     rulesRun |-> <<>>]

\* analyze from its try statement on, with the issue list kept in a field of
\* the analyzer that no pass empties and every pass adds a parse note to
analyzeTryKeepsList(outcome) ==
    Return((IF call.made THEN call.result ELSE <<>>) \o <<[ruleId |-> "parse"]>>,
           1)

\* V8LintAnalyzer.analyze from its try statement on; an error that leaves
\* the async function rejects its promise
analyzeTry(outcome) ==
    LET sourceFile == parseSourceCode(outcome)
        body == IF Threw(sourceFile) THEN sourceFile
                ELSE IF ~sourceFile.tree THEN Return(<<>>, 1)
                ELSE Return(<<>>, 1)
        r == TryCatch(body, Return(<<>>, 1))
    IN  IF Threw(r)
        THEN [settled |-> "rejected", result |-> <<>>, parseCalls |-> 1,
              rulesRun |-> <<>>]
        ELSE r

\* analyze without the test of the enabled flag
analyzeIgnoresEnabled(cfg, sourceCode, fileName, outcome) ==
    IF shouldSkipFile(cfg, fileName) THEN Return(<<>>, 0)
    ELSE IF trim(sourceCode) = <<>> THEN Return(<<>>, 0)
    ELSE analyzeTry(outcome)

\* V8LintAnalyzer.analyze
analyze(cfg, sourceCode, fileName, outcome) ==
    IF ~cfg.enabled THEN Return(<<>>, 0)
    ELSE IF shouldSkipFile(cfg, fileName) THEN Return(<<>>, 0)
    ELSE IF trim(sourceCode) = <<>> THEN Return(<<>>, 0)
    ELSE analyzeTry(outcome)

-----------------------------------------------------------------------------
(* The rule detectors (rules/no-*.ts): what each rule's analyze returns on   *)
(* the tree of one pass, a list of issues or a thrown error                  *)

Issue(ruleId, n) == [ruleId |-> ruleId, n |-> n]

Detects(r, issues) == [throws |-> FALSE, issues |-> issues]

NoDetection == [r \in SeqToSet(RuleClasses) |-> Detects(r, <<>>)]

Detections ==
    {NoDetection,
     [NoDetection EXCEPT
        !["no-dynamic-object-properties"] =
            Detects("no-dynamic-object-properties",
                    <<Issue("no-dynamic-object-properties", 1),
                      Issue("no-dynamic-object-properties", 2)>>),
        !["no-property-deletion"] =
            Detects("no-property-deletion", <<Issue("no-property-deletion", 1)>>)],
     [NoDetection EXCEPT
        !["no-dynamic-object-properties"] = [throws |-> TRUE, issues |-> <<>>],
        !["no-property-deletion"] =
            Detects("no-property-deletion", <<Issue("no-property-deletion", 1)>>)]}

-----------------------------------------------------------------------------
(* The arguments a caller passes to the analyzer *)

\* source texts of at most MaxSourceLen characters
MaxSourceLen == 2

SourceChars == Whitespace \cup {"x"}

Strings(chars, n) == UNION {[1..k -> chars] : k \in 0..n}

Sources == Strings(SourceChars, MaxSourceLen)

FileNames == {<<"a">>, <<"b", "/", "a">>, <<"c", ".", "t", "s">>}

ExcludeLists ==
    {<<>>,
     << <<"*", "*", "/", "b", "/", "*", "*">> >>,
     << <<"d">>, <<"c", ".", "t", "s">> >>}

AnalyzerRules == {[r \in {"no-property-deletion"} |-> "error"]}

AnalyzerSeverities == {"error"}

AnUpdatedFields == {"enabled", "rules", "defaultSeverity", "excludePatterns"}

\* exclude patterns and file names for shouldSkipFile, of bounded length
MaxPatternLen == 4

MaxFileNameLen == 2

PatternChars == {"*", "/", "a"}

BoundedExcludeLists == {<<p>> : p \in Strings(PatternChars, MaxPatternLen)}

BoundedFileNames == Strings(PatternChars, MaxFileNameLen)

NoCall == [made |-> FALSE]

NoObs == [op |-> "none"]

-----------------------------------------------------------------------------
(* The state after construction *)

Init ==
    /\ metadata = ruleMetadataJson
    /\ rules = loadRulesAndMetadata(ruleMetadataJson, RuleClasses).value
    /\ configuration = DefaultConfiguration
    /\ ruleConfig = [r \in SeqToSet(RuleClasses) |->
                        BaseRuleDefault(ruleMetadataJson[r])]
    /\ config = DefaultConfig
    /\ call = NoCall
    /\ obs = NoObs

\* updateConfiguration that merges a supplied rules mapping into the stored one
RegUpdateMergesRules(partial) ==
    LET merged ==
          IF "rules" \in DOMAIN partial
          THEN [Spread(configuration, partial) EXCEPT
                  !.rules = Spread(configuration.rules, partial.rules)]
          ELSE Spread(configuration, partial)
    IN  /\ configuration' = merged
        /\ ruleConfig' =
             applyConfigurationToRules(merged, metadata, rules, 1, ruleConfig)
        /\ call' = NoCall
        /\ UNCHANGED <<rules, metadata, config>>

\* RuleRegistry.updateConfiguration(partial); call keeps the analyze call made
\* under the current configurations, so it is forgotten here
RegUpdate(partial) ==
    LET merged == Spread(configuration, partial)
    IN  /\ configuration' = merged
        /\ ruleConfig' =
             applyConfigurationToRules(merged, metadata, rules, 1, ruleConfig)
        /\ call' = NoCall
        /\ UNCHANGED <<rules, metadata, config>>

\* RuleRegistry.updateConfiguration
RegUpdateConfiguration ==
    \E D \in SUBSET UpdatedFields :
      \E e \in Pick(D, "enabled", BOOLEAN, TRUE),
         m \in Pick(D, "rules", RuleMaps, EmptyObject),
         c \in Pick(D, "includeCategories", CategoryLists, <<>>),
         k \in Pick(D, "maxIssuesPerFile", IssueCaps, 0) :
        LET partial == [f \in D |->
                           CASE f = "enabled" -> e
                             [] f = "rules" -> m
                             [] f = "includeCategories" -> c
                             [] f = "maxIssuesPerFile" -> k]
        IN  RegUpdate(partial) /\ UNCHANGED obs

\* V8LintAnalyzer.updateConfiguration(newConfig)
AnUpdate(newConfig) ==
    /\ config' = Spread(config, newConfig)
    /\ call' = NoCall
    /\ UNCHANGED regVars

\* V8LintAnalyzer.updateConfiguration
AnUpdateConfiguration ==
    \E D \in SUBSET AnUpdatedFields :
      \E e \in Pick(D, "enabled", BOOLEAN, TRUE),
         m \in Pick(D, "rules", AnalyzerRules, EmptyObject),
         d \in Pick(D, "defaultSeverity", AnalyzerSeverities, "error"),
         x \in Pick(D, "excludePatterns", ExcludeLists, <<>>) :
        LET newConfig == [f \in D |->
                             CASE f = "enabled" -> e
                               [] f = "rules" -> m
                               [] f = "defaultSeverity" -> d
                               [] f = "excludePatterns" -> x]
        IN  AnUpdate(newConfig) /\ UNCHANGED obs

\* one call of V8LintAnalyzer.analyze, run to its return; when the call
\* reaches the parser, the parser's outcome and what the rules would report on
\* its tree are chosen by the environment
AnalyzeCall(sourceCode, fileName) ==
    LET parses == analyze(config, sourceCode, fileName, "tree").parseCalls > 0
    IN  \E outcome \in IF parses THEN ParseOutcomes ELSE {"none"} :
        \E detected \in IF parses /\ outcome # "throws"
                         THEN Detections ELSE {NoDetection} :
          /\ call' = Spread([made |-> TRUE, sourceCode |-> sourceCode,
                             fileName |-> fileName, outcome |-> outcome,
                             detected |-> detected],
                            analyze(config, sourceCode, fileName, outcome))
          /\ UNCHANGED <<regVars, config>>

Analyze == \E sourceCode \in Sources, fileName \in FileNames :
              AnalyzeCall(sourceCode, fileName) /\ UNCHANGED obs

\* analyze applied to one source text and the bounded file names
AnalyzeBounded == \E fileName \in BoundedFileNames :
                     AnalyzeCall(<<"x">>, fileName) /\ UNCHANGED obs

\* an analyzer after one updateConfiguration({excludePatterns: [p]})
InitSkip ==
    /\ metadata = ruleMetadataJson
    /\ rules = loadRulesAndMetadata(ruleMetadataJson, RuleClasses).value
    /\ configuration = DefaultConfiguration
    /\ ruleConfig = [r \in SeqToSet(RuleClasses) |->
                        BaseRuleDefault(ruleMetadataJson[r])]
    /\ config \in {Spread(DefaultConfig, [excludePatterns |-> x]) :
                      x \in BoundedExcludeLists}
    /\ call = NoCall
    /\ obs = NoObs

NextRegistry == RegUpdateConfiguration

NextSkip == AnalyzeBounded

SpecSkip == InitSkip /\ [][NextSkip]_vars

NextAnalyzer == AnUpdateConfiguration \/ Analyze

SpecAnalyzer == Init /\ [][NextAnalyzer]_vars

SpecRegistry == Init /\ [][NextRegistry]_vars

\* The analyzer's constructor drops its ruleRegistry argument, so the two
\* components share no state: each is checked under its own specification.
Next == RegUpdateConfiguration \/ AnUpdateConfiguration \/ Analyze

Spec == Init /\ [][Next]_vars

-----------------------------------------------------------------------------
(* Passes under a changing rules mapping *)

\* RuleRegistry.updateConfiguration({ rules: m })
RulesUpdate == \E m \in RuleMaps : RegUpdate([rules |-> m]) /\ UNCHANGED obs

\* analyze applied to one source text that is not blank
AnalyzePass == \E fileName \in FileNames :
                  AnalyzeCall(<<"x">>, fileName) /\ UNCHANGED obs

NextPass == RulesUpdate \/ AnalyzePass

SpecPass == Init /\ [][NextPass]_vars

-----------------------------------------------------------------------------
(* Rules configured directly, through RuleRegistry.getRule(id).configure(c) *)

\* the rules a caller configures directly
DirectlyConfigured == {"no-dynamic-object-properties", "no-regexp-modification"}

\* the arguments of configure: values of type RuleConfiguration, among them
\* one of a structural subtype, which carries a property of its own
DirectConfigurations ==
    RuleConfigurations \cup
    {[enabled |-> TRUE, severity |-> "info", options |-> EmptyObject,
      comment |-> "x"]}

\* V8LintRule.configure(c) called on rule r
Configure ==
    \E r \in DirectlyConfigured, c \in DirectConfigurations :
        /\ ruleConfig' = [ruleConfig EXCEPT ![r] = configure(@, c)]
        /\ obs' = [op |-> "configure", rule |-> r, c |-> c]
        /\ UNCHANGED <<rules, metadata, configuration, config, call>>

NextRule == Configure

SpecRule == Init /\ [][NextRule]_vars

-----------------------------------------------------------------------------
(* Configuration updates, each remembered with the configuration it met *)

MergedRuleMaps ==
    {EmptyObject,
     [r \in {"no-dynamic-object-properties"} |->
         [enabled |-> FALSE, severity |-> "off", options |-> EmptyObject]],
     [r \in {"no-regexp-modification"} |->
         [enabled |-> TRUE, severity |-> "error", options |-> [strict |-> TRUE]]]}

\* Partial<RuleSystemConfiguration>
RegPartials ==
    {[f \in D |-> CASE f = "enabled" -> e
                   [] f = "rules" -> m
                   [] f = "maxIssuesPerFile" -> k] :
        D \in SUBSET {"enabled", "rules", "maxIssuesPerFile"},
        e \in BOOLEAN, m \in MergedRuleMaps, k \in IssueCaps}

\* Partial<AnalyzerConfig>
AnPartials ==
    {[f \in D |-> CASE f = "enabled" -> e
                   [] f = "excludePatterns" -> x] :
        D \in SUBSET {"enabled", "excludePatterns"},
        e \in BOOLEAN, x \in ExcludeLists}

RegMerge ==
    \E partial \in RegPartials :
        /\ RegUpdate(partial)
        /\ obs' = [op |-> "RuleRegistry.updateConfiguration", arg |-> partial,
                   before |-> configuration]

AnMerge ==
    \E newConfig \in AnPartials :
        /\ AnUpdate(newConfig)
        /\ obs' = [op |-> "V8LintAnalyzer.updateConfiguration",
                   arg |-> newConfig, before |-> config]

NextMerge == RegMerge \/ AnMerge

SpecMerge == Init /\ [][NextMerge]_vars

-----------------------------------------------------------------------------
(* Construction of a registry from a catalog (the content of metadata.json)  *)
(* and the list of rule classes loadRulesAndMetadata instantiates, each      *)
(* named by the catalog key its metadata is fetched under                    *)

CatalogKeys ==
    {"no-property-deletion", "no-arguments-object", "no-array-type-mixing"}

\* the entries a catalog key may hold: the entry of one of the rules, or an
\* entry whose id field names no catalog key
CatalogEntries ==
    {ruleMetadataJson[j] : j \in CatalogKeys} \cup
    {[ruleMetadataJson["no-property-deletion"] EXCEPT
        !.id = "no-property-delete"]}

Catalogs == UNION {[D -> CatalogEntries] : D \in SUBSET CatalogKeys}

\* loadRulesAndMetadata instantiates at most MaxClasses rule classes
MaxClasses == 2

ClassLists == Strings(CatalogKeys, MaxClasses)

\* before the constructor has run there is no registry
InitLoad ==
    /\ rules = <<>>
    /\ metadata = EmptyObject
    /\ configuration = DefaultConfiguration
    /\ ruleConfig = EmptyObject
    /\ config = DefaultConfig
    /\ call = NoCall
    /\ obs \in {[op |-> "new RuleRegistry", catalog |-> c, classes |-> l,
                  returned |-> FALSE] : c \in Catalogs, l \in ClassLists}

\* new RuleRegistry(): a thrown error leaves no registry behind
Construct ==
    /\ obs.op = "new RuleRegistry"
    /\ ~obs.returned
    /\ LET r == loadRulesAndMetadata(obs.catalog, obs.classes)
           own(id) == obs.catalog[CHOOSE k \in SeqToSet(obs.classes) :
                                     obs.catalog[k].id = id]
       IN  /\ obs' = Spread(obs, [returned |-> TRUE, result |-> r])
           /\ IF Threw(r)
              THEN UNCHANGED <<rules, metadata, ruleConfig>>
              ELSE /\ rules' = r.value
                   /\ metadata' = obs.catalog
                   /\ ruleConfig' = [id \in SeqToSet(r.value) |->
                                        BaseRuleDefault(own(id))]
    /\ UNCHANGED <<configuration, config, call>>

NextLoad == Construct

SpecLoad == InitLoad /\ [][NextLoad]_vars

-----------------------------------------------------------------------------
(* Issues built by a rule: createIssue applied to a node of a source file    *)

\* source texts of at most MaxTextLen characters
MaxTextLen == 2

Texts == Strings({"a", "\n"}, MaxTextLen)

\* the nodes of a text: getStart() <= getEnd() <= the text's length
Nodes(text) ==
    {[start |-> p[1], end |-> p[2]] :
        p \in {q \in (0..Len(text)) \X (0..Len(text)) : q[1] <= q[2]}}

\* the rules that build the issues
IssuingRules == {"no-dynamic-object-properties", "no-regexp-modification"}

\* Partial<V8LintIssue>: the options a rule passes to createIssue
IssueOptions ==
    {[f \in D |-> CASE f = "impactLevel" -> lvl
                   [] f = "description" -> ""
                   [] f = "suggestedFix" -> "use a Map"
                   [] f = "ruleId" -> "custom-id"
                   [] f = "line" -> 7] :
        D \in SUBSET {"impactLevel", "description", "suggestedFix", "ruleId",
                      "line"},
        lvl \in {"low", "high"}}

\* a registry after at most one update of its rules mapping, and a rule about
\* to build an issue
InitIssue ==
    /\ metadata = ruleMetadataJson
    /\ rules = loadRulesAndMetadata(ruleMetadataJson, RuleClasses).value
    /\ configuration \in {Spread(DefaultConfiguration, [rules |-> m]) :
                             m \in MergedRuleMaps}
    /\ ruleConfig =
         applyConfigurationToRules(
             configuration, metadata, rules, 1,
             [r \in SeqToSet(RuleClasses) |->
                 BaseRuleDefault(ruleMetadataJson[r])])
    /\ config = DefaultConfig
    /\ call = NoCall
    /\ obs \in {[op |-> "createIssue", rule |-> r, node |-> n,
                  context |-> [sourceFile |-> t, fileName |-> <<"a">>],
                  message |-> "m", options |-> o, returned |-> FALSE] :
                    r \in IssuingRules, o \in IssueOptions,
                    n \in UNION {Nodes(u) : u \in Texts}, t \in Texts}
    /\ obs.node \in Nodes(obs.context.sourceFile)

\* BaseRule.createIssue called by rule obs.rule
CreateIssue ==
    /\ obs.op = "createIssue"
    /\ ~obs.returned
    /\ obs' = Spread(obs,
                     [returned |-> TRUE,
                      result |-> createIssue(metadata[obs.rule],
                                             ruleConfig[obs.rule], obs.node,
                                             obs.context, obs.message,
                                             obs.options)])
    /\ UNCHANGED <<regVars, config, call>>

NextIssue == CreateIssue

SpecIssue == InitIssue /\ [][NextIssue]_vars

-----------------------------------------------------------------------------
(* Passes repeated under one configuration: obs keeps the pass before the    *)
(* last one, if the configuration has not been updated since                 *)

RepeatedSources == {<<"x">>, <<" ">>}

AnalyzeAgain ==
    \E sourceCode \in RepeatedSources, fileName \in FileNames :
        /\ AnalyzeCall(sourceCode, fileName)
        /\ obs' = [op |-> "analyze", previous |-> call]

Reconfigure ==
    \E newConfig \in AnPartials : AnUpdate(newConfig) /\ obs' = NoObs

NextRepeat == AnalyzeAgain \/ Reconfigure

SpecRepeat == Init /\ [][NextRepeat]_vars

-----------------------------------------------------------------------------
(* The script kind of a file name *)

\* file names of at most MaxKindLen characters
MaxKindLen == 4

KindChars == {".", "t", "s", "x", "j", "T"}

KindFileNames == Strings(KindChars, MaxKindLen)

InitKind ==
    /\ metadata = ruleMetadataJson
    /\ rules = loadRulesAndMetadata(ruleMetadataJson, RuleClasses).value
    /\ configuration = DefaultConfiguration
    /\ ruleConfig = [r \in SeqToSet(RuleClasses) |->
                        BaseRuleDefault(ruleMetadataJson[r])]
    /\ config = DefaultConfig
    /\ call = NoCall
    /\ obs \in {[op |-> "getScriptKind", fileName |-> f, returned |-> FALSE] :
                    f \in KindFileNames}

\* V8LintAnalyzer.getScriptKind(obs.fileName)
GetScriptKind ==
    /\ obs.op = "getScriptKind"
    /\ ~obs.returned
    /\ obs' = Spread(obs, [returned |-> TRUE,
                           result |-> getScriptKind(obs.fileName)])
    /\ UNCHANGED <<regVars, config, call>>

NextKind == GetScriptKind

SpecKind == InitKind /\ [][NextKind]_vars

-----------------------------------------------------------------------------
(* Two registries, each with its analyzer. The first instance is held in     *)
(* the variables, the second in obs.second. Every constructor builds its     *)
(* own configuration object, Maps and rule instances; the catalog objects    *)
(* of metadata.json are the one thing both registries refer to, and no       *)
(* operation writes them, so metadata and the keys of the rules Map stand    *)
(* for both. obs.last names the instance whose configuration was updated     *)
(* last and keeps the other instance as it was before that update.           *)

\* the first instance
First ==
    [configuration |-> configuration, ruleConfig |-> ruleConfig,
     config |-> config, call |-> call]

\* an update of the second registry that writes through to the first, as it
\* would with one configuration object shared by all instances
SecondRegUpdateShared(partial) ==
    LET merged == Spread(obs.second.configuration, partial)
    IN  /\ obs' = [obs EXCEPT
                     !.second.configuration = merged,
                     !.second.ruleConfig =
                         applyConfigurationToRules(merged, metadata, rules, 1, @),
                     !.second.call = NoCall,
                     !.last = [on |-> 2, other |-> First]]
        /\ configuration' = merged
        /\ UNCHANGED <<rules, metadata, ruleConfig, config, call>>

\* RuleRegistry.updateConfiguration(partial) on the second registry
SecondRegUpdate(partial) ==
    LET merged == Spread(obs.second.configuration, partial)
    IN  /\ obs' = [obs EXCEPT
                     !.second.configuration = merged,
                     !.second.ruleConfig =
                         applyConfigurationToRules(merged, metadata, rules, 1, @),
                     !.second.call = NoCall,
                     !.last = [on |-> 2, other |-> First]]
        /\ UNCHANGED <<regVars, config, call>>

\* V8LintAnalyzer.updateConfiguration(newConfig) on the second analyzer
SecondAnUpdate(newConfig) ==
    /\ obs' = [obs EXCEPT !.second.config = Spread(@, newConfig),
                          !.second.call = NoCall,
                          !.last = [on |-> 2, other |-> First]]
    /\ UNCHANGED <<regVars, config, call>>

\* V8LintAnalyzer.analyze on the second analyzer
SecondAnalyze ==
    \E fileName \in FileNames, outcome \in ParseOutcomes :
        /\ obs' = [obs EXCEPT
                     !.second.call =
                         Spread([made |-> TRUE, sourceCode |-> <<"x">>,
                                 fileName |-> fileName, outcome |-> outcome,
                                 detected |-> NoDetection],
                                analyze(obs.second.config, <<"x">>, fileName,
                                        outcome)),
                     !.last = [on |-> 0]]
        /\ UNCHANGED <<regVars, config, call>>

InitTwo ==
    /\ metadata = ruleMetadataJson
    /\ rules = loadRulesAndMetadata(ruleMetadataJson, RuleClasses).value
    /\ configuration = DefaultConfiguration
    /\ ruleConfig = [r \in SeqToSet(RuleClasses) |->
                        BaseRuleDefault(ruleMetadataJson[r])]
    /\ config = DefaultConfig
    /\ call = NoCall
    /\ obs = [op |-> "two instances", second |-> First, last |-> [on |-> 0]]

FirstUpdated == [obs EXCEPT !.last = [on |-> 1, other |-> obs.second]]

TwoRegUpdate ==
    \E m \in MergedRuleMaps :
        \/ RegUpdate([rules |-> m]) /\ obs' = FirstUpdated
        \/ SecondRegUpdate([rules |-> m])

TwoAnUpdate ==
    \E x \in ExcludeLists :
        \/ AnUpdate([excludePatterns |-> x]) /\ obs' = FirstUpdated
        \/ SecondAnUpdate([excludePatterns |-> x])

TwoAnalyze ==
    \/ \E fileName \in FileNames :
          /\ AnalyzeCall(<<"x">>, fileName)
          /\ obs' = [obs EXCEPT !.last = [on |-> 0]]
    \/ SecondAnalyze

NextTwo == TwoRegUpdate \/ TwoAnUpdate \/ TwoAnalyze

SpecTwo == InitTwo /\ [][NextTwo]_vars

-----------------------------------------------------------------------------
(* The promise of a pass. analyze is an async function without an await: its *)
(* body runs to its return inside the call, and the promise it hands back    *)
(* holds the value returned until the caller consumes it.                    *)

\* analyze with an await ahead of its tests: the body runs only when the
\* promise is consumed, and reads the configuration of that moment
SettleAfterAwait(value, cfg) ==
    Spread(value, analyze(cfg, value.sourceCode, value.fileName, value.outcome))

\* what the consumer of the promise receives: the value the call returned
Settle(value, cfg) == value

\* analyze is called; its promise is not consumed yet
StartPass ==
    \E fileName \in FileNames :
        /\ AnalyzeCall(<<"x">>, fileName)
        /\ obs' = [op |-> "promise", atCall |-> config, value |-> call',
                   consumed |-> FALSE]

\* updateConfiguration, possibly between a call of analyze and the
\* consumption of its promise
UpdateAnytime ==
    \E newConfig \in AnPartials : AnUpdate(newConfig) /\ UNCHANGED obs

\* the caller consumes the promise
Consume ==
    /\ obs.op = "promise"
    /\ ~obs.consumed
    /\ obs' = Spread(obs, [consumed |-> TRUE,
                           received |-> Settle(obs.value, config)])
    /\ UNCHANGED <<regVars, config, call>>

NextPromise == StartPass \/ UpdateAnytime \/ Consume

SpecPromise == Init /\ [][NextPromise]_vars

-----------------------------------------------------------------------------
(* Validation of per-rule entries that come from outside the type system    *)
(* (user settings), next to updates that store such entries                 *)

\* entries as read from settings: the severity may be any string
UncheckedConfigurations ==
    RuleConfigurations \cup
    {[enabled |-> TRUE, severity |-> "fatal", options |-> EmptyObject]}

\* rules mappings of at most one entry
UncheckedRuleMaps ==
    {EmptyObject} \cup
    UNION {[{id} -> UncheckedConfigurations] : id \in ConfiguredIds}

\* RuleRegistry.validateRuleConfiguration(ruleId, c)
Validate ==
    \E ruleId \in ConfiguredIds, c \in UncheckedConfigurations :
        /\ obs' = [op |-> "validateRuleConfiguration", ruleId |-> ruleId,
                   c |-> c, before |-> First,
                   result |-> validateRuleConfiguration(rules, ruleId, c)]
        /\ UNCHANGED <<regVars, config, call>>

\* RuleRegistry.updateConfiguration({ rules: m }) with entries nobody validated
StoreUnchecked ==
    \E m \in UncheckedRuleMaps :
        /\ RegUpdate([rules |-> m])
        /\ obs' = [op |-> "RuleRegistry.updateConfiguration",
                   arg |-> [rules |-> m], before |-> configuration]

NextValidate == Validate \/ StoreUnchecked

SpecValidate == Init /\ [][NextValidate]_vars

-----------------------------------------------------------------------------
(* Properties *)

Min(a, b) == IF a <= b THEN a ELSE b

Take(s, k) == SubSeq(s, 1, Min(k, Len(s)))

\* the rules getActiveRules() returns in the current state
ActiveNow == getActiveRules(configuration, metadata, rules)

\* the resolved configuration of rule r in the current state
Resolved(r) == getRuleConfiguration(configuration, metadata, r)

\* a pass that got a tree from the parser
TreeBuilt == call.made /\ call.outcome \in {"tree", "diagnostics"}

\* the issues the rules in list active return, in that order; a rule that
\* throws contributes none
RECURSIVE IssuesOf(_, _)
IssuesOf(active, detected) ==
    IF active = <<>> THEN <<>>
    ELSE (IF detected[Head(active)].throws THEN <<>>
          ELSE detected[Head(active)].issues)
         \o IssuesOf(Tail(active), detected)

\* C1: for non-skipped input with a tree, analyze runs every rule of
\* getActiveRules(), in that order, and returns the concatenation of their
\* issues cut to its first maxIssuesPerFile entries.
C1_RunsActiveRulesAndCaps ==
    TreeBuilt =>
        /\ call.rulesRun = ActiveNow.value
        /\ call.result = Take(IssuesOf(ActiveNow.value, call.detected),
                              configuration.maxIssuesPerFile)

\* C2: when one active rule throws during its analyze call, every other active
\* rule is still run and its issues are in the returned list (as far as the cap
\* allows), and the throwing rule contributes no issue.
C2_ThrowingRuleIsIsolated ==
    (TreeBuilt /\ \E t \in SeqToSet(ActiveNow.value) : call.detected[t].throws)
    => \A r \in SeqToSet(ActiveNow.value) :
         IF call.detected[r].throws
         THEN \A i \in 1..Len(call.result) : call.result[i].ruleId # r
         ELSE /\ Includes(call.rulesRun, r)
              /\ Len(IssuesOf(ActiveNow.value, call.detected))
                    <= configuration.maxIssuesPerFile
                 => \A i \in 1..Len(call.detected[r].issues) :
                       Includes(call.result, call.detected[r].issues[i])

\* C3: after any sequence of updateConfiguration calls, getActiveRules() holds
\* no rule whose resolved configuration has severity "off" or enabled = false,
\* and no rule whose category is outside includeCategories.
C3_ActiveRulesAreEnabledAndIncluded ==
    ~Threw(ActiveNow) =>
        \A i \in 1..Len(ActiveNow.value) :
            LET r == ActiveNow.value[i]
            IN  /\ Resolved(r).enabled
                /\ Resolved(r).severity # "off"
                /\ metadata[r].category \in SeqToSet(configuration.includeCategories)

\* C3 witness: an update switched one rule off by severity, another rule is
\* outside the included categories, and other rules are still active.
C3_Witness ==
    /\ configuration # DefaultConfiguration
    /\ \E r \in SeqToSet(rules) :
          Resolved(r).enabled /\ Resolved(r).severity = "off"
    /\ \E r \in SeqToSet(rules) :
          /\ Resolved(r).enabled /\ Resolved(r).severity # "off"
          /\ metadata[r].category \notin SeqToSet(configuration.includeCategories)
    /\ ~Threw(ActiveNow)
    /\ Len(ActiveNow.value) > 0

\* the rules a pass should run, by the four conditions of the registry
ShouldRun(r) ==
    /\ configuration.enabled
    /\ Resolved(r).enabled
    /\ Resolved(r).severity # "off"
    /\ metadata[r].category \in SeqToSet(configuration.includeCategories)

\* C4: getActiveRules() returns exactly the registered rules for which the
\* global flag is true, the resolved enabled flag is true, the resolved
\* severity is not "off" and the category is included, in registration order;
\* it is empty when the global flag is false.
C4_ActiveRulesExactlyInOrder ==
    /\ ~Threw(ActiveNow)
    /\ ActiveNow.value = SelectSeq(rules, ShouldRun)
    /\ ~configuration.enabled => ActiveNow.value = <<>>

\* C4 witness: a proper, non-empty part of the rules is active, and it skips a
\* rule registered between two active ones.
C4_Witness ==
    /\ ~Threw(ActiveNow)
    /\ Len(ActiveNow.value) >= 2
    /\ Len(ActiveNow.value) < Len(rules)
    /\ \E i, j, k \in 1..Len(rules) :
          /\ i < j /\ j < k
          /\ ShouldRun(rules[i]) /\ ~ShouldRun(rules[j]) /\ ShouldRun(rules[k])

\* C5: while the analyzer's enabled flag is false, analyze returns an empty
\* list and never invokes the parser.
C5_DisabledReturnsEmptyWithoutParsing ==
    (call.made /\ ~config.enabled) =>
        /\ call.settled = "resolved"
        /\ call.result = <<>>
        /\ call.parseCalls = 0

\* C5 witness: a disabled analyzer was given a source it would otherwise parse.
C5_Witness ==
    /\ call.made
    /\ ~config.enabled
    /\ \E i \in 1..Len(call.sourceCode) : call.sourceCode[i] \notin Whitespace
    /\ ~shouldSkipFile(config, call.fileName)
    /\ call.parseCalls = 0

\* a pattern with a leading "**/" and a trailing "/**" stripped
StripEnds(p) ==
    LET a == IF Len(p) >= 3 /\ SubSeq(p, 1, 3) = <<"*", "*", "/">>
             THEN SubSeq(p, 4, Len(p)) ELSE p
    IN  IF Len(a) >= 3 /\ SubSeq(a, Len(a) - 2, Len(a)) = <<"/", "*", "*">>
        THEN SubSeq(a, 1, Len(a) - 3) ELSE a

\* t is a substring of s
IsSubstring(s, t) ==
    \E k \in 1..(Len(s) - Len(t) + 1) : SubSeq(s, k, k + Len(t) - 1) = t

\* the identifier contains some exclude pattern with its ends stripped
ExcludedByStrippedPattern(fileName) ==
    \E i \in 1..Len(config.excludePatterns) :
        IsSubstring(fileName, StripEnds(config.excludePatterns[i]))

\* C6: an identifier is treated as excluded exactly when it contains some
\* exclude pattern with a leading "**/" and a trailing "/**" stripped, and for
\* an excluded identifier analyze returns an empty list without parsing.
C6_ExcludedIffContainsStrippedPattern ==
    call.made =>
        /\ shouldSkipFile(config, call.fileName)
              <=> ExcludedByStrippedPattern(call.fileName)
        /\ ExcludedByStrippedPattern(call.fileName) =>
              call.result = <<>> /\ call.parseCalls = 0

\* C7: for a source text that is empty or all whitespace, analyze returns an
\* empty list without parsing, whatever the configuration and the identifier.
C7_BlankSourceReturnsEmpty ==
    (call.made /\ \A i \in 1..Len(call.sourceCode) :
                      call.sourceCode[i] \in Whitespace) =>
        /\ call.settled = "resolved"
        /\ call.result = <<>>
        /\ call.parseCalls = 0

\* C7 witness: an enabled analyzer was given a non-empty source of line breaks
\* under an identifier it does not exclude.
C7_Witness ==
    /\ call.made
    /\ config.enabled
    /\ config.excludePatterns # <<>>
    /\ ~shouldSkipFile(config, call.fileName)
    /\ Len(call.sourceCode) > 0
    /\ \A i \in 1..Len(call.sourceCode) : call.sourceCode[i] = "\n"
    /\ call.parseCalls = 0

\* C8: analyze never rejects: after any updates of the configuration, for
\* every source and identifier, its promise resolves to a list.
C8_AnalyzeNeverRejects ==
    call.made =>
        /\ call.settled = "resolved"
        /\ DOMAIN call.result = 1..Len(call.result)

\* C8 witness: the parser failed internally during a pass made after an update
\* of the exclude patterns, and the promise resolved.
C8_Witness ==
    /\ call.made
    /\ config.excludePatterns # <<>>
    /\ call.outcome = "throws"
    /\ call.parseCalls = 1
    /\ call.settled = "resolved"

\* C9: in the constructed registry and after every updateConfiguration call,
\* each registered rule holds the registry's resolved configuration for it.
C9_RulesHoldResolvedConfiguration ==
    \A r \in SeqToSet(rules) : ruleConfig[r] = Resolved(r)

\* C9 witness: an update gave a registered rule options and a severity other
\* than its default, and the rule holds them.
C9_Witness ==
    \E r \in SeqToSet(rules) :
        /\ r \in DOMAIN configuration.rules
        /\ ruleConfig[r].options # EmptyObject
        /\ ruleConfig[r].severity # metadata[r].defaultSeverity
        /\ ruleConfig[r] # BaseRuleDefault(metadata[r])

\* the user entry's value of a field, or a default when the entry lacks it
FieldOr(entry, field, default) ==
    IF field \in DOMAIN entry THEN entry[field] ELSE default

\* C10: the resolved configuration takes each field from the user's entry for
\* the rule when present, else enabled = true, severity = the metadata's
\* defaultSeverity, options = {}; with no entry it is exactly the defaults.
C10_ResolvedConfigurationLayersUserOverDefaults ==
    \A r \in SeqToSet(rules) :
        LET md == ruleMetadataJson[r]
        IN  IF r \in DOMAIN configuration.rules
            THEN Resolved(r) =
                   [enabled |-> FieldOr(configuration.rules[r], "enabled", TRUE),
                    severity |-> FieldOr(configuration.rules[r], "severity",
                                         md.defaultSeverity),
                    options |-> FieldOr(configuration.rules[r], "options",
                                        EmptyObject)]
            ELSE Resolved(r) =
                   [enabled |-> TRUE, severity |-> md.defaultSeverity,
                    options |-> EmptyObject]

\* C10 witness: one registered rule has a user entry whose severity and
\* options differ from the defaults, another registered rule has no entry.
C10_Witness ==
    /\ \E r \in SeqToSet(rules) :
          /\ r \in DOMAIN configuration.rules
          /\ configuration.rules[r].severity # ruleMetadataJson[r].defaultSeverity
          /\ configuration.rules[r].options # EmptyObject
          /\ Resolved(r) = configuration.rules[r]
    /\ \E r \in SeqToSet(rules) :
          /\ r \notin DOMAIN configuration.rules
          /\ Resolved(r).severity = ruleMetadataJson[r].defaultSeverity

\* the entry that switches a rule off
SwitchedOff == [enabled |-> FALSE, severity |-> "off", options |-> EmptyObject]

\* C11: while the rules mapping of the registry holds the entry
\* { enabled: false, severity: 'off', options: {} } for a registered rule r,
\* that is from the update that supplied it until a later update replaces it,
\* r is not among getActiveRules(), and no analyze call runs r or returns an
\* issue whose ruleId is r.
C11_SwitchedOffRuleStaysOut ==
    \A r \in SeqToSet(rules) :
        (r \in DOMAIN configuration.rules /\ configuration.rules[r] = SwitchedOff)
        => /\ ~Threw(ActiveNow)
           /\ ~Includes(ActiveNow.value, r)
           /\ call.made =>
                 /\ ~Includes(call.rulesRun, r)
                 /\ \A i \in 1..Len(call.result) : call.result[i].ruleId # r

\* a rule switched off, and a pass over a tree in which that rule's pattern
\* is present
C11_Witness ==
    /\ "no-dynamic-object-properties" \in DOMAIN configuration.rules
    /\ configuration.rules["no-dynamic-object-properties"] = SwitchedOff
    /\ TreeBuilt
    /\ call.detected["no-dynamic-object-properties"].issues # <<>>

\* C12: after rule.configure(c) returns, the configuration the rule holds
\* equals c: no field of the configuration held before survives.
C12_ConfigureReplacesWholesale ==
    obs.op = "configure" => ruleConfig[obs.rule] = obs.c

\* after is before with exactly the top-level fields of arg replaced
ShallowMerge(before, arg, after) ==
    /\ DOMAIN after = (DOMAIN before) \cup (DOMAIN arg)
    /\ \A f \in DOMAIN after :
          after[f] = IF f \in DOMAIN arg THEN arg[f] ELSE before[f]

\* C13: after either updateConfiguration, every top-level field the partial
\* lacks has the value it had before and every field it carries has the
\* partial's value; after a registry update that carries a rules mapping,
\* every registered rule the mapping lacks resolves to its defaults.
C13_UpdatesAreShallowMerges ==
    /\ obs.op = "RuleRegistry.updateConfiguration" =>
          /\ ShallowMerge(obs.before, obs.arg, configuration)
          /\ "rules" \in DOMAIN obs.arg =>
                \A r \in SeqToSet(rules) \ DOMAIN obs.arg.rules :
                    Resolved(r) = BaseRuleDefault(metadata[r])
    /\ obs.op = "V8LintAnalyzer.updateConfiguration" =>
          ShallowMerge(obs.before, obs.arg, config)

\* an update whose rules mapping lacks a rule that the mapping before it
\* had switched off
C13_Witness ==
    /\ obs.op = "RuleRegistry.updateConfiguration"
    /\ "rules" \in DOMAIN obs.arg
    /\ "no-dynamic-object-properties" \in DOMAIN obs.before.rules
    /\ "no-dynamic-object-properties" \notin DOMAIN obs.arg.rules
    /\ "enabled" \notin DOMAIN obs.arg
    /\ ~obs.before.enabled

\* a rule class whose catalog key the catalog lacks
MissingEntry ==
    \E i \in 1..Len(obs.classes) : obs.classes[i] \notin DOMAIN obs.catalog

\* two rule instances with the same identity
DuplicateIdentity ==
    \E i, j \in 1..Len(obs.classes) :
        /\ i < j
        /\ {obs.classes[i], obs.classes[j]} \subseteq DOMAIN obs.catalog
        /\ obs.catalog[obs.classes[i]].id = obs.catalog[obs.classes[j]].id

\* C14: the constructor throws, and leaves no registry, whenever a rule is
\* registered under an identity already registered or the catalog has no
\* entry under the key a rule's metadata is fetched by.
C14_ConstructionAbortsOnDuplicateOrMissing ==
    (obs.op = "new RuleRegistry" /\ obs.returned
       /\ (MissingEntry \/ DuplicateIdentity))
    => Threw(obs.result) /\ rules = <<>> /\ ruleConfig = EmptyObject

\* two different rule classes whose catalog entries carry the same id, every
\* catalog key being present
C14_Witness ==
    /\ obs.op = "new RuleRegistry" /\ obs.returned
    /\ ~MissingEntry
    /\ Len(obs.classes) = 2
    /\ obs.classes[1] # obs.classes[2]
    /\ DuplicateIdentity
    /\ Threw(obs.result)

\* C15: in a registry whose constructor returned, every registered rule has
\* a catalog entry under its own identity, so resolving its configuration
\* and computing the active rules throw nothing.
C15_ConstructedRegistryIsConsistent ==
    (obs.op = "new RuleRegistry" /\ obs.returned /\ ~Threw(obs.result))
    => /\ \A r \in SeqToSet(rules) :
             /\ r \in DOMAIN metadata
             /\ metadata[r].id = r
             /\ ~Threw(Resolved(r))
       /\ ~Threw(ActiveNow)

\* C16: an issue built by createIssue carries the value of every field the
\* caller's options supply; where they supply none, its ruleId, category,
\* documentation, tags and quickFixAvailable come from the rule's metadata,
\* its severity from the rule's held configuration and its impactLevel is
\* "medium"; its impactLevel is always low, medium or high.
C16_IssueFieldsAndOverrides ==
    (obs.op = "createIssue" /\ obs.returned) =>
        LET issue == obs.result
            md == metadata[obs.rule]
            own == [ruleId |-> md.id, category |-> md.category,
                    documentation |-> md.documentation, tags |-> md.tags,
                    quickFixAvailable |-> md.fixable,
                    severity |-> ruleConfig[obs.rule].severity,
                    impactLevel |-> "medium"]
        IN  /\ \A f \in DOMAIN obs.options : issue[f] = obs.options[f]
            /\ \A f \in (DOMAIN own) \ DOMAIN obs.options : issue[f] = own[f]
            /\ issue.impactLevel \in {"low", "medium", "high"}

\* an issue built with its ruleId and impactLevel overridden, by a rule whose
\* held severity is not its default
C16_Witness ==
    /\ obs.op = "createIssue" /\ obs.returned
    /\ {"ruleId", "impactLevel"} \subseteq DOMAIN obs.options
    /\ "line" \notin DOMAIN obs.options
    /\ ruleConfig[obs.rule].severity # metadata[obs.rule].defaultSeverity
    /\ obs.result.ruleId = "custom-id"
    /\ obs.result.severity = ruleConfig[obs.rule].severity

\* C17: the position fields of every issue built by createIssue are the
\* 1-based line and column of the node's start offset and of its end offset,
\* and the end position is not before the start position.
C17_IssuePositionsAreTheNodeSpan ==
    (obs.op = "createIssue" /\ obs.returned) =>
        LET issue == obs.result
            start == getLineAndCharacterOfPosition(obs.context.sourceFile,
                                                   obs.node.start)
            end == getLineAndCharacterOfPosition(obs.context.sourceFile,
                                                 obs.node.end)
        IN  /\ issue.line = start.line + 1
            /\ issue.column = start.character + 1
            /\ issue.endLine = end.line + 1
            /\ issue.endColumn = end.character + 1
            /\ \/ issue.endLine > issue.line
               \/ issue.endLine = issue.line /\ issue.endColumn >= issue.column

\* the last two passes, with no configuration update between them, had the
\* same source and file name; the parser and the rules, being functions of
\* their input, then answered the same both times
SamePassTwice ==
    /\ obs.op = "analyze"
    /\ obs.previous.made
    /\ call.sourceCode = obs.previous.sourceCode
    /\ call.fileName = obs.previous.fileName
    /\ call.outcome = obs.previous.outcome
    /\ call.detected = obs.previous.detected

\* C18: two analyze calls with the same source and file name, with no
\* configuration update between them, return the same list of issues.
C18_AnalyzeIsIdempotent ==
    SamePassTwice =>
        /\ call.settled = obs.previous.settled
        /\ call.result = obs.previous.result

\* the same source analyzed twice, the parser building a tree both times
C18_Witness ==
    /\ SamePassTwice
    /\ TreeBuilt
    /\ call.parseCalls = 1
    /\ obs.previous.parseCalls = 1

\* the text after the last "." of a file name that has one
Suffix(fileName) ==
    LET dots == {i \in 1..Len(fileName) : fileName[i] = "."}
    IN  SubSeq(fileName, (CHOOSE i \in dots : \A j \in dots : j <= i) + 1,
               Len(fileName))

\* C19: the script kind of a file name is TS, TSX or JSX when the text after
\* its last ".", letter case aside, is ts, tsx or jsx, and JS for every other
\* file name, one without a "." included.
C19_ScriptKindBySuffix ==
    (obs.op = "getScriptKind" /\ obs.returned) =>
        obs.result =
            IF ~Includes(obs.fileName, ".") THEN "JS"
            ELSE LET suffix == toLowerCase(Suffix(obs.fileName))
                 IN  CASE suffix = <<"t", "s">> -> "TS"
                       [] suffix = <<"t", "s", "x">> -> "TSX"
                       [] suffix = <<"j", "s", "x">> -> "JSX"
                       [] OTHER -> "JS"

\* C20: in a pass that reaches the parser, parseSourceCode returns the tree
\* that tree construction returned, parse diagnostics or not, and returns
\* null exactly when tree construction threw; analyze then resolves to the
\* empty list.
C20_DiagnosticsNeverAbortAPass ==
    (call.made /\ call.parseCalls = 1) =>
        LET sourceFile == parseSourceCode(call.outcome)
        IN  /\ ~Threw(sourceFile)
            /\ call.outcome \in {"tree", "diagnostics"} =>
                  sourceFile = createSourceFile(call.outcome)
            /\ sourceFile = Null <=> call.outcome = "throws"
            /\ sourceFile = Null =>
                  call.settled = "resolved" /\ call.result = <<>>

\* a pass whose tree carries parse diagnostics
C20_Witness ==
    /\ call.made
    /\ call.parseCalls = 1
    /\ call.outcome = "diagnostics"
    /\ parseSourceCode(call.outcome).parseDiagnostics
    /\ call.settled = "resolved"

\* C21: after updateConfiguration on one registry or analyzer, the other
\* instance has the stored configurations, the rules' held configurations,
\* the active rules and the analyze result it had before the call.
C21_InstancesShareNoState ==
    obs.op = "two instances" =>
        LET other == IF obs.last.on = 1 THEN obs.second ELSE First
            active(i) == getActiveRules(i.configuration, metadata, rules)
        IN  obs.last.on # 0 =>
                /\ other.configuration = obs.last.other.configuration
                /\ other.config = obs.last.other.config
                /\ other.ruleConfig = obs.last.other.ruleConfig
                /\ active(other) = active(obs.last.other)
                /\ other.call = obs.last.other.call

\* the second registry updated while the first, configured differently, had
\* a pass behind it
C21_Witness ==
    /\ obs.op = "two instances"
    /\ obs.last.on = 2
    /\ call.made
    /\ configuration.rules # EmptyObject
    /\ obs.second.configuration.rules # EmptyObject
    /\ obs.second.configuration # configuration
    /\ config # obs.second.config

\* what analyze decides and returns under configuration cfg for the
\* arguments and the parser outcome of pass p
Decided(cfg, p) == analyze(cfg, p.sourceCode, p.fileName, p.outcome)

\* C22: the skip decisions and the result a caller receives from a pass are
\* those analyze makes under the configuration stored when it was called,
\* whatever updateConfiguration did before the promise was consumed.
C22_PassReadsConfigurationAtCall ==
    (obs.op = "promise" /\ obs.consumed) =>
        LET atCall == Decided(obs.atCall, obs.value)
        IN  /\ obs.received.settled = atCall.settled
            /\ obs.received.result = atCall.result
            /\ obs.received.parseCalls = atCall.parseCalls
            /\ obs.received.rulesRun = atCall.rulesRun

\* a pass that parsed, consumed after an update under which the same call
\* would have been skipped
C22_Witness ==
    /\ obs.op = "promise" /\ obs.consumed
    /\ config # obs.atCall
    /\ obs.received.parseCalls = 1
    /\ Decided(config, obs.value).parseCalls = 0

\* C23: validateRuleConfiguration returns no error exactly when the rule is
\* registered and the severity is error, warning, info or off; for a rule
\* that is not registered it returns the one error "Unknown rule", whatever
\* the severity; it changes neither the stored configuration nor any rule's
\* held configuration; and updateConfiguration stores a rules mapping as it
\* is, unknown rule ids and unrecognised severities included.
C23_ValidationIsPureAndOptional ==
    /\ obs.op = "validateRuleConfiguration" =>
          /\ obs.result = <<>> <=>
                (Includes(rules, obs.ruleId) /\ obs.c.severity \in RuleSeverity)
          /\ ~Includes(rules, obs.ruleId) =>
                /\ Len(obs.result) = 1
                /\ obs.result[1].error = "Unknown rule"
          /\ configuration = obs.before.configuration
          /\ ruleConfig = obs.before.ruleConfig
    /\ (obs.op = "RuleRegistry.updateConfiguration"
          /\ "rules" \in DOMAIN obs.arg) =>
          configuration.rules = obs.arg.rules

\* an unregistered rule validated with an unrecognised severity, in a
\* registry that stores an entry with an unrecognised severity
C23_Witness ==
    /\ obs.op = "validateRuleConfiguration"
    /\ ~Includes(rules, obs.ruleId)
    /\ obs.c.severity \notin RuleSeverity
    /\ obs.result = <<[error |-> "Unknown rule", ruleId |-> obs.ruleId]>>
    /\ \E r \in DOMAIN configuration.rules :
          configuration.rules[r].severity \notin RuleSeverity

====
